---------------------------- MODULE Spec2Model ----------------------------
(***************************************************************************)
(* The portfolio dashboard of app.py and Dashboard-Summary-canvas.py as a  *)
(* state machine: one run of the Streamlit script (a render pass) loads    *)
(* the four mapping files, reads the portfolio table, enriches it,         *)
(* filters it and renders the total line, the summary table, the           *)
(* allocation series and the detail table.                                 *)
(*                                                                         *)
(* Numbers.  A pandas/numpy float is a record [kind, v]: kind "fin" with   *)
(* an integer v, or one of the IEEE specials "nan", "inf", "ninf" and      *)
(* "negzero" (-0.0).  Money is counted in whole rupees, a percentage in    *)
(* hundredths of a percent (v = 1333 is 13.33), and the arithmetic is      *)
(* exact; round(2) rounds the exact quotient half-to-even as numpy does.   *)
(* A formatted amount or percentage is a sequence of one-character         *)
(* strings; codes and display names are plain strings, and a missing cell  *)
(* of an object column is the value NaN.                                   *)
(*                                                                         *)
(* The two scripts run the same pipeline and differ in highlight_hpr, so   *)
(* one run carries the styles of both: summary_styles and detail_styles    *)
(* have a field for app.py and one for Dashboard-Summary-canvas.py.        *)
(***************************************************************************)
EXTENDS Integers, Sequences, FiniteSets, TLC

\* ------------------------------------------------------------------ bounds
\* The longest portfolio table read from a CSV file.
MaxRows == 2

\* ------------------------------------------------------------------ floats
Fin(x) == [kind |-> "fin", v |-> x]
NaNf == [kind |-> "nan", v |-> 0]
PosInf == [kind |-> "inf", v |-> 0]
NegInf == [kind |-> "ninf", v |-> 0]
NegZero == [kind |-> "negzero", v |-> 0]

\* A missing cell of a string column (read_csv's NaN).
NaN == "NaN"

Abs(x) == IF x < 0 THEN -x ELSE x

\* pd.to_numeric(column, errors='coerce'): a cell that does not parse
\* (kind "bad") becomes NaN.
to_numeric(cell) == IF cell.kind = "bad" THEN NaNf ELSE cell

\* Elementwise a - b of two float columns.
Sub(a, b) ==
    IF a.kind = "nan" \/ b.kind = "nan" THEN NaNf ELSE Fin(a.v - b.v)

\* numpy's round-half-to-even of the exact quotient num / den, den > 0.
RoundHalfEven(num, den) ==
    LET q == num \div den
        r == num - q * den
    IN  IF 2 * r < den THEN q
        ELSE IF 2 * r > den THEN q + 1
        ELSE IF q % 2 = 0 THEN q ELSE q + 1

\* (n / d * 100).round(2), in hundredths of a percent.  Float division by
\* zero yields inf, -inf or NaN; a negative quotient that rounds to zero is
\* -0.0.
DivPercentRound2(n, d) ==
    IF n.kind = "nan" \/ d.kind = "nan" THEN NaNf
    ELSE IF d.v = 0
         THEN IF n.v > 0 THEN PosInf ELSE IF n.v < 0 THEN NegInf ELSE NaNf
    ELSE LET num == IF d.v < 0 THEN -(n.v * 10000) ELSE n.v * 10000
             den == Abs(d.v)
             q == RoundHalfEven(num, den)
         IN  IF q = 0 /\ num < 0 THEN NegZero ELSE Fin(q)

\* Series.fillna(0): only NaN is replaced, inf and -inf are kept.
fillna0(x) == IF x.kind = "nan" THEN Fin(0) ELSE x

\* Series.sum() with the default skipna=True: NaN cells contribute nothing
\* and an all-NaN (or empty) column sums to 0.
RECURSIVE SumSkipNa(_)
SumSkipNa(col) ==
    IF col = <<>> THEN 0
    ELSE (IF Head(col).kind = "fin" THEN Head(col).v ELSE 0)
         + SumSkipNa(Tail(col))

\* ----------------------------------------------------------------- strings
Digits == <<"0", "1", "2", "3", "4", "5", "6", "7", "8", "9">>
DigitChar(d) == Digits[d + 1]
DigitVal(c) == (CHOOSE i \in 1..10 : Digits[i] = c) - 1
IsDigit(c) == \E i \in 1..10 : Digits[i] = c

\* The decimal digits of a natural number, most significant first.
RECURSIVE NatChars(_)
NatChars(n) ==
    IF n < 10 THEN <<DigitChar(n)>>
    ELSE Append(NatChars(n \div 10), DigitChar(n % 10))

\* The ',' option of the format mini-language: a comma before every group
\* of three digits.
RECURSIVE GroupThousands(_)
GroupThousands(cs) ==
    IF Len(cs) <= 3 THEN cs
    ELSE GroupThousands(SubSeq(cs, 1, Len(cs) - 3))
         \o <<",">> \o SubSeq(cs, Len(cs) - 2, Len(cs))

\* f"{x:.2f}" of a float counted in hundredths.
FormatFixed2(x, grouped) ==
    CASE x.kind = "nan" -> <<"n", "a", "n">>
      [] x.kind = "inf" -> <<"i", "n", "f">>
      [] x.kind = "ninf" -> <<"-", "i", "n", "f">>
      [] x.kind = "negzero" -> <<"-", "0", ".", "0", "0">>
      [] OTHER ->
            LET a == Abs(x.v)
                ip == NatChars(a \div 100)
            IN  (IF x.v < 0 THEN <<"-">> ELSE <<>>)
                \o (IF grouped THEN GroupThousands(ip) ELSE ip)
                \o <<".", DigitChar((a % 100) \div 10), DigitChar(a % 10)>>

\* lambda x: f"{x:.2f}%"
format_percent(x) == FormatFixed2(x, FALSE) \o <<"%">>

\* format_currency(value): f"₹ {value:,.2f}" of an amount in rupees.
format_currency(value) ==
    <<"₹", " ">>
    \o FormatFixed2(IF value.kind = "fin" THEN Fin(value.v * 100) ELSE value,
                    TRUE)

\* s.replace('%', '')
RemovePercent(s) == SelectSeq(s, LAMBDA c : c # "%")

\* The value of a run of decimal digits.
RECURSIVE DigitsValue(_)
DigitsValue(cs) ==
    IF cs = <<>> THEN 0
    ELSE 10 * DigitsValue(SubSeq(cs, 1, Len(cs) - 1)) + DigitVal(cs[Len(cs)])

\* float(text) for the texts FormatFixed2 produces, in hundredths: an
\* optional sign, then "inf", "nan", or digits '.' two digits.
ParseFloat(text) ==
    LET neg == text # <<>> /\ Head(text) = "-"
        body == IF neg THEN Tail(text) ELSE text
        dot == CHOOSE i \in 1..(Len(body) + 1) :
                  /\ i <= Len(body) => body[i] = "."
                  /\ \A j \in 1..(i - 1) : body[j] # "."
        ip == SubSeq(body, 1, dot - 1)
        fp == SubSeq(body, dot + 1, Len(body))
        mag == 100 * DigitsValue(ip)
               + (IF Len(fp) >= 1 THEN 10 * DigitVal(fp[1]) ELSE 0)
               + (IF Len(fp) >= 2 THEN DigitVal(fp[2]) ELSE 0)
    IN  IF body = <<"i", "n", "f">> THEN (IF neg THEN NegInf ELSE PosInf)
        ELSE IF body = <<"n", "a", "n">> THEN NaNf
        ELSE IF mag = 0 THEN (IF neg THEN NegZero ELSE Fin(0))
        ELSE Fin(IF neg THEN -mag ELSE mag)

\* The float comparison value < 0: false for NaN, -0.0 and +inf.
LessThanZero(x) == (x.kind = "fin" /\ x.v < 0) \/ x.kind = "ninf"

\* --------------------------------------------------------- mapping tables
\* A dict loaded from JSON is a sequence of [key, value] pairs with distinct
\* keys, in insertion order; the value of a mapping entry is itself a dict
\* from language tag to display string, here a function on the tags it has.
EmptyDict == <<>>
HasKey(d, k) == \E i \in 1..Len(d) : d[i].key = k

\* dict.get(k, default) on the outer table.
DictGet(d, k, default) ==
    IF HasKey(d, k)
    THEN d[CHOOSE i \in 1..Len(d) : d[i].key = k].value
    ELSE default

\* dict.get(lang, default) on an entry.
EntryGet(e, l, default) == IF l \in DOMAIN e THEN e[l] ELSE default

\* table.get(code, {}).get(lang, code): the body shared by get_text,
\* get_member_name and get_stock_name.
GetOrCode(table, code, l) == EntryGet(DictGet(table, code, <<>>), l, code)

get_text(titles, key, l) == GetOrCode(titles, key, l)
get_member_name(members, member_code, l) == GetOrCode(members, member_code, l)
get_stock_name(stocks, isin_code, l) == GetOrCode(stocks, isin_code, l)

\* A call's outcome: a returned value or a raised exception.
Return(v) == [raised |-> FALSE, value |-> v]
Raise(e) == [raised |-> TRUE, value |-> e]

\* get_sector_name: scans the entries in order; value['en'] raises KeyError
\* on an entry without an 'en' field.
RECURSIVE get_sector_name(_, _, _)
get_sector_name(sectors, sector_name_en, l) ==
    IF sectors = <<>> THEN Return(sector_name_en)
    ELSE LET value == Head(sectors).value
         IN  IF "en" \notin DOMAIN value THEN Raise("KeyError")
             ELSE IF value["en"] = sector_name_en /\ sector_name_en # NaN
                  THEN Return(EntryGet(value, l, sector_name_en))
                  ELSE get_sector_name(Tail(sectors), sector_name_en, l)

\* ------------------------------------------------------------ environment
Langs == {"en", "ta"}

MappingFiles ==
    <<"member_mapping.json", "sector_mapping.json", "stock_mapping.json",
      "titles.json">>

Pair(k, v) == [key |-> k, value |-> v]

MemberTable ==
    <<Pair("M1", [en |-> "Alice", ta |-> "Alis"]), Pair("M2", [en |-> "Bob"])>>
SectorTable ==
    <<Pair("IT", [en |-> "Tech", ta |-> "Tholil"]),
      Pair("FIN", [en |-> "Bank"])>>
\* An entry without an 'en' field ahead of the others.
SectorTableNoEn ==
    <<Pair("MISC", [ta |-> "Palavagai"]),
      Pair("IT", [en |-> "Tech", ta |-> "Tholil"])>>
\* Two entries with the same English name.
SectorTableDupEn ==
    <<Pair("IT", [en |-> "Tech", ta |-> "Tholil"]),
      Pair("TECH", [en |-> "Tech", ta |-> "Thurai"])>>
StockTable == <<Pair("INE001", [en |-> "Infosys", ta |-> "Infosys-ta"])>>
TitlesTable ==
    <<Pair("Portfolio Summary", [en |-> "Portfolio Summary",
                                  ta |-> "Thoguppu"]),
      Pair("HPR", [en |-> "HPR"])>>

\* A mapping file on disk: absent, or present with a text, named here by
\* the document it holds; "{" is a text that is not JSON.
Absent == [state |-> "absent", text |-> ""]
Present(text) == [state |-> "present", text |-> text]
Malformed == Present("{")

\* json.load(f): the dict of a JSON document, JSONDecodeError on a text
\* that is not JSON.
json_load(text) ==
    CASE text = "members" -> Return(MemberTable)
      [] text = "sectors" -> Return(SectorTable)
      [] text = "sectors, an entry without en" -> Return(SectorTableNoEn)
      [] text = "sectors, two entries with one en" -> Return(SectorTableDupEn)
      [] text = "stocks" -> Return(StockTable)
      [] text = "titles" -> Return(TitlesTable)
      [] OTHER -> Raise("JSONDecodeError")

\* load_json_mapping(file_path): an absent file is reported and gives {};
\* json.load's JSONDecodeError on malformed content is not caught.
load_json_mapping(file) ==
    IF file.state = "absent" THEN Return(EmptyDict) ELSE json_load(file.text)

FileContents(f) ==
    {Absent, Malformed} \cup
    CASE f = "member_mapping.json" -> {Present("members")}
      [] f = "sector_mapping.json" ->
            {Present("sectors"), Present("sectors, an entry without en"),
             Present("sectors, two entries with one en")}
      [] f = "stock_mapping.json" -> {Present("stocks")}
      [] OTHER -> {Present("titles")}

AllValidFiles ==
    [f \in {MappingFiles[i] : i \in 1..4} |->
        CASE f = "member_mapping.json" -> Present("members")
          [] f = "sector_mapping.json" -> Present("sectors")
          [] f = "stock_mapping.json" -> Present("stocks")
          [] OTHER -> Present("titles")]

FileSystems ==
    {fs \in [{MappingFiles[i] : i \in 1..4} ->
                UNION {FileContents(MappingFiles[i]) : i \in 1..4}] :
        \A i \in 1..4 : fs[MappingFiles[i]] \in FileContents(MappingFiles[i])}

\* A cell of a numeric CSV column that does not parse as a number.
Bad == [kind |-> "bad", v |-> 0]

Row(p, m, isin, s, b, q, c, v) ==
    [Portfolio |-> p, MemberCode |-> m, ISINCode |-> isin, SectorName |-> s,
     Broker |-> b, Qty |-> q, ValueAtCost |-> c, ValueAtMarketPrice |-> v]

\* The rows a portfolio CSV is made of.
RowPool ==
    {Row("P1", "M1", "INE001", "Tech", "Zerodha", Fin(10), Fin(1000), Fin(1200)),
     Row("P1", "M1", "INE002", "Tech", "Zerodha", Fin(5), Fin(500), Fin(500)),
     Row("P2", "M2", "INE001", "Bank", "Groww", Fin(1), Fin(0), Fin(500)),
     Row("P2", NaN, "INE002", NaN, NaN, Bad, Fin(1000), Bad),
     Row("P1", "M2", "INE002", "Bank", "Groww", Fin(2), Bad, Fin(0)),
     Row("P2", "M1", "INE001", "Tech", "Groww", NaNf, Fin(30000), Fin(29999)),
     Row("P1", "M2", "INE001", "Bank", "Zerodha", Fin(4), Fin(1000), Fin(800))}

SeqsUpTo(S, n) == UNION {[1..k -> S] : k \in 0..n}

\* The portfolio tables: up to MaxRows different rows of the pool, in any
\* order.
Tables ==
    {t \in SeqsUpTo(RowPool, MaxRows) :
        \A i, j \in 1..Len(t) : t[i] = t[j] => i = j}
SmallTables == {t \in Tables : Len(t) <= 1}

NoFile == [exists |-> FALSE, rows |-> <<>>]
File(t) == [exists |-> TRUE, rows |-> t]

\* ------------------------------------------------------------- dataframes
\* The column `name` of a dataframe, as a sequence of cells.
Column(frame, name) == [i \in 1..Len(frame) |-> frame[i][name]]

\* Series.unique(): the distinct cells in order of first appearance, a
\* missing cell included.
RECURSIVE Unique(_)
Unique(col) ==
    IF col = <<>> THEN <<>>
    ELSE LET front == Unique(SubSeq(col, 1, Len(col) - 1))
             x == col[Len(col)]
         IN  IF \E i \in 1..Len(front) : front[i] = x THEN front
             ELSE Append(front, x)

\* The options a selectbox offers, as a set.
Range(options) == {options[i] : i \in 1..Len(options)}

\* Empty with its test left out: no frame is ever taken for empty.
EmptyNever(frame) == FALSE

\* DataFrame.empty
Empty(frame) == Len(frame) = 0

\* ['All'] + df[column].unique().tolist()
FilterOptions(frame, name) == <<"All">> \o Unique(Column(frame, name))

\* The elementwise comparison column == selected: a missing cell compares
\* unequal to everything, and so does a missing selected value.
CellEq(cell, selected) == cell # NaN /\ selected # NaN /\ cell = selected

\* FilterBy with its mask one row out of step with the frame: row i is kept
\* when the row before it matches, the first row when the last one matches.
FilterByShiftedMask(frame, name, selected) ==
    IF selected # "All"
    THEN LET before(i) == IF i = 1 THEN Len(frame) ELSE i - 1
             keep == {i \in 1..Len(frame) :
                        CellEq(frame[before(i)][name], selected)}
             F[i \in 0..Len(frame)] ==
                IF i = 0 THEN <<>>
                ELSE IF i \in keep THEN Append(F[i - 1], frame[i])
                ELSE F[i - 1]
         IN  F[Len(frame)]
    ELSE frame

\* if selected != 'All': frame = frame[frame[column] == selected]
FilterBy(frame, name, selected) ==
    IF selected # "All"
    THEN SelectSeq(frame, LAMBDA r : CellEq(r[name], selected))
    ELSE frame

\* filtered with every filter applied to the whole table instead of to the
\* result of the one before it, so that only the last active filter counts.
filtered_unchained(frame, sel) ==
    IF sel.Broker # "All" THEN FilterBy(frame, "Broker", sel.Broker)
    ELSE IF sel.SectorDisplayName # "All"
         THEN FilterBy(frame, "SectorDisplayName", sel.SectorDisplayName)
    ELSE IF sel.MemberName # "All"
         THEN FilterBy(frame, "MemberName", sel.MemberName)
    ELSE FilterBy(frame, "Portfolio", sel.Portfolio)

\* The four filters of the sidebar, applied one after the other.
filtered(frame, sel) ==
    FilterBy(FilterBy(FilterBy(FilterBy(frame,
        "Portfolio", sel.Portfolio),
        "MemberName", sel.MemberName),
        "SectorDisplayName", sel.SectorDisplayName),
        "Broker", sel.Broker)

\* Row HPR: ((market - cost) / cost * 100).round(2), then fillna(0).
RowHPR(cost, market) == fillna0(DivPercentRound2(Sub(market, cost), cost))

\* The display columns and the HPR column added to one row; the sector
\* lookup is passed in, as it may have raised.
EnrichRow(r, members, stocks, sector, l) ==
    LET cost == to_numeric(r.ValueAtCost)
        market == to_numeric(r.ValueAtMarketPrice)
    IN  [Portfolio |-> r.Portfolio, MemberCode |-> r.MemberCode,
         ISINCode |-> r.ISINCode, SectorName |-> r.SectorName,
         Broker |-> r.Broker, Qty |-> to_numeric(r.Qty),
         ValueAtCost |-> cost, ValueAtMarketPrice |-> market,
         MemberName |-> get_member_name(members, r.MemberCode, l),
         StockDisplayName |-> get_stock_name(stocks, r.ISINCode, l),
         SectorDisplayName |-> sector,
         HPR |-> RowHPR(cost, market)]

\* The strings a grouping column can hold, in the order sorted() gives them
\* (code point order): groupby sorts its keys.
Collation ==
    <<"Alice", "Alis", "Bank", "Bob", "Groww", "M1", "M2", "Tech", "Tholil",
      "Thurai", "Zerodha">>

\* The keys of frame.groupby(name): the distinct values of the column,
\* sorted; dropna=True is the default, so rows whose key is missing belong
\* to no group.
GroupKeys(frame, name) ==
    SelectSeq(Collation,
              LAMBDA k : \E i \in 1..Len(frame) : frame[i][name] = k)

GroupRows(frame, name, k) == SelectSeq(frame, LAMBDA r : r[name] = k)

\* TotalHPR without its guard, computed as the HPR columns are.
TotalHPRUnguarded(investment, current) ==
    fillna0(DivPercentRound2(Fin(current - investment), Fin(investment)))

\* total_hpr: guarded by `if total_investment != 0 else 0`.
TotalHPR(investment, current) ==
    IF investment # 0
    THEN DivPercentRound2(Fin(current - investment), Fin(investment))
    ELSE Fin(0)

\* The HPR column of the summary table: no guard, round(2) then fillna(0).
GroupHPR(investment, current) ==
    fillna0(DivPercentRound2(Sub(Fin(current), Fin(investment)),
                             Fin(investment)))

\* SummaryTable with the group HPR taken as the mean of the rows' HPRs.
SummaryTableMeanHPR(frame, name) ==
    LET keys == GroupKeys(frame, name)
    IN  [i \in 1..Len(keys) |->
            LET g == GroupRows(frame, name, keys[i])
            IN  [Key |-> keys[i],
                 Investment |-> Fin(SumSkipNa(Column(g, "ValueAtCost"))),
                 Current_Value |->
                    Fin(SumSkipNa(Column(g, "ValueAtMarketPrice"))),
                 HPR |-> Fin(SumSkipNa(Column(g, "HPR")) \div Len(g))]]

\* groupby(name).agg(Investment=sum, Current_Value=sum).reset_index() with
\* the HPR column added.
SummaryTable(frame, name) ==
    LET keys == GroupKeys(frame, name)
    IN  [i \in 1..Len(keys) |->
            LET g == GroupRows(frame, name, keys[i])
                inv == SumSkipNa(Column(g, "ValueAtCost"))
                cur == SumSkipNa(Column(g, "ValueAtMarketPrice"))
            IN  [Key |-> keys[i], Investment |-> Fin(inv),
                 Current_Value |-> Fin(cur), HPR |-> GroupHPR(inv, cur)]]

\* The summary table after the formatting of its three value columns.
FormatSummary(table) ==
    [i \in 1..Len(table) |->
        [Key |-> table[i].Key,
         Investment |-> format_currency(table[i].Investment),
         Current_Value |-> format_currency(table[i].Current_Value),
         HPR |-> format_percent(table[i].HPR)]]

\* groupby(name)['Value At Cost'].sum().reset_index(): the pie's series.
AllocationData(frame, name) ==
    LET keys == GroupKeys(frame, name)
    IN  [i \in 1..Len(keys) |->
            [Key |-> keys[i],
             ValueAtCost |->
                Fin(SumSkipNa(Column(GroupRows(frame, name, keys[i]),
                                     "ValueAtCost")))]]

\* display_df: the eight columns of the detail table, formatted.
DisplayFrame(frame) ==
    [i \in 1..Len(frame) |->
        [MemberName |-> frame[i].MemberName, Broker |-> frame[i].Broker,
         SectorDisplayName |-> frame[i].SectorDisplayName,
         StockDisplayName |-> frame[i].StockDisplayName,
         Qty |-> frame[i].Qty,
         ValueAtCost |-> format_currency(frame[i].ValueAtCost),
         ValueAtMarketPrice |-> format_currency(frame[i].ValueAtMarketPrice),
         HPR |-> format_percent(frame[i].HPR)]]

HighlightStyle == "background-color: #ffe6e6"

\* highlight_hpr of Dashboard-Summary-canvas.py: one style per cell of the
\* column, from the cell's text parsed back to a float.
highlight_hpr(s) ==
    [i \in 1..Len(s) |->
        IF LessThanZero(ParseFloat(RemovePercent(s[i]))) THEN HighlightStyle
        ELSE ""]

\* highlight_hpr of app.py: Styler.apply hands it the column, a Series, so
\* isinstance(s, str) is false and the last line answers for every cell.
highlight_hpr_app(s) ==
    LET s_is_str == FALSE
    IN  IF s_is_str /\ \E i \in 1..Len(s) : s[i] = "%"
        THEN [i \in 1..Len(s) |->
                IF LessThanZero(ParseFloat(RemovePercent(s))) THEN HighlightStyle
                ELSE ""]
        ELSE [i \in 1..Len(s) |-> ""]

SummarizeByOptions ==
    [Member |-> "MemberName", Sector |-> "SectorDisplayName",
     Broker |-> "Broker"]

\* ------------------------------------------------------------------ state
VARIABLES
    files,              \* the four mapping files on disk
    uploaded_file,      \* the file of the sidebar's uploader, if any
    default_file,       \* portfolioinputs.csv, if it exists
    pc,                 \* where the script run stands
    exception,          \* the exception that ended the run, if any
    messages,           \* what st.error, st.info and st.warning reported
    member_mapping, sector_mapping, stock_mapping, titles_mapping,
    lang, title,
    df, selection, filtered_df,
    total_investment, total_current_value, total_hpr,
    group_by_column, summary_table, summary_view, summary_styles,
    allocation_data, display_df, detail_styles,
    produced            \* the outputs handed to the page in this run

env == <<files, uploaded_file, default_file>>
mappings == <<member_mapping, sector_mapping, stock_mapping, titles_mapping>>
outputs ==
    <<total_investment, total_current_value, total_hpr, group_by_column,
      summary_table, summary_view, summary_styles, allocation_data,
      display_df, detail_styles, produced>>
vars ==
    <<env, pc, exception, messages, mappings, lang, title, df, selection,
      filtered_df, outputs>>

NoSelection ==
    [Portfolio |-> "All", MemberName |-> "All", SectorDisplayName |-> "All",
     Broker |-> "All"]

BothVariants(x) == [app |-> x, canvas |-> x]

\* The files a run can find: every portfolio table beside a complete set of
\* mapping files, and every state of the mapping files beside a table of at
\* most one row.
Environments ==
    {<<AllValidFiles, NoFile, d>> : d \in {NoFile} \cup {File(t) : t \in Tables}}
    \cup {<<AllValidFiles, File(u), d>> :
            u \in SmallTables, d \in {NoFile} \cup {File(t) : t \in SmallTables}}
    \cup {<<fs, NoFile, d>> :
            fs \in FileSystems, d \in {NoFile} \cup {File(t) : t \in SmallTables}}

Init ==
    /\ \E e \in Environments :
        /\ files = e[1]
        /\ uploaded_file = e[2]
        /\ default_file = e[3]
    /\ pc = "start"
    /\ exception = ""
    /\ messages = {}
    /\ member_mapping = EmptyDict
    /\ sector_mapping = EmptyDict
    /\ stock_mapping = EmptyDict
    /\ titles_mapping = EmptyDict
    /\ lang = "en"
    /\ title = ""
    /\ df = <<>>
    /\ selection = NoSelection
    /\ filtered_df = <<>>
    /\ total_investment = Fin(0)
    /\ total_current_value = Fin(0)
    /\ total_hpr = Fin(0)
    /\ group_by_column = ""
    /\ summary_table = <<>>
    /\ summary_view = <<>>
    /\ summary_styles = BothVariants(<<>>)
    /\ allocation_data = <<>>
    /\ display_df = <<>>
    /\ detail_styles = BothVariants(<<>>)
    /\ produced = {}

\* ---------------------------------------------------------------- actions
\* The four module-level load_json_mapping calls, in order.  The first
\* malformed file ends the run with json.load's exception.
LoadMappings ==
    /\ pc = "start"
    /\ LET result(i) == load_json_mapping(files[MappingFiles[i]])
           failed == {i \in 1..4 : result(i).raised}
           stop == IF failed = {} THEN 5
                   ELSE CHOOSE i \in failed : \A k \in failed : i <= k
           loaded(i) == IF i < stop THEN result(i).value ELSE EmptyDict
       IN  /\ member_mapping' = loaded(1)
           /\ sector_mapping' = loaded(2)
           /\ stock_mapping' = loaded(3)
           /\ titles_mapping' = loaded(4)
           /\ messages' = messages \cup
                {<<"error", "Mapping file not found", MappingFiles[i]>> :
                    i \in {k \in 1..4 : /\ k < stop
                                        /\ files[MappingFiles[k]].state = "absent"}}
           /\ pc' = IF stop <= 4 THEN "crashed" ELSE "language"
           /\ exception' = IF stop <= 4 THEN result(stop).value ELSE ""
    /\ UNCHANGED <<env, lang, title, df, selection, filtered_df, outputs>>

\* The language selectbox and the page title.
SelectLanguage ==
    /\ pc = "language"
    /\ \E l \in Langs :
        /\ lang' = l
        /\ title' = get_text(titles_mapping, "Portfolio Summary", l)
    /\ pc' = "load"
    /\ UNCHANGED <<env, exception, messages, mappings, df, selection,
                   filtered_df, outputs>>

\* The uploaded file, else the default file, else the request to upload.
LoadPortfolio ==
    /\ pc = "load"
    /\ IF uploaded_file.exists
       THEN df' = uploaded_file.rows /\ UNCHANGED messages
       ELSE IF default_file.exists
            THEN df' = default_file.rows /\ UNCHANGED messages
            ELSE /\ df' = <<>>
                 /\ messages' = messages \cup
                        {<<"info", "Please upload a portfolio CSV file.", "">>}
    /\ pc' = "enrich"
    /\ UNCHANGED <<env, exception, mappings, lang, title, selection,
                   filtered_df, outputs>>

\* `if not df.empty:` and the cleaning, mapping and HPR columns under it.
Enrich ==
    /\ pc = "enrich"
    /\ IF Empty(df)
       THEN pc' = "done" /\ UNCHANGED <<df, exception>>
       ELSE LET sector(i) ==
                    get_sector_name(sector_mapping, df[i].SectorName, lang)
            IN  IF \E i \in 1..Len(df) : sector(i).raised
                THEN /\ pc' = "crashed"
                     /\ exception' = "KeyError"
                     /\ UNCHANGED df
                ELSE /\ df' = [i \in 1..Len(df) |->
                                EnrichRow(df[i], member_mapping, stock_mapping,
                                          sector(i).value, lang)]
                     /\ pc' = "filter"
                     /\ UNCHANGED exception
    /\ UNCHANGED <<env, messages, mappings, lang, title, selection,
                   filtered_df, outputs>>

\* The four selectboxes, the filters and `if filtered_df.empty:`.
ApplyFilters ==
    /\ pc = "filter"
    /\ \E p \in Range(FilterOptions(df, "Portfolio")),
          m \in Range(FilterOptions(df, "MemberName")),
          s \in Range(FilterOptions(df, "SectorDisplayName")),
          b \in Range(FilterOptions(df, "Broker")) :
          selection' = [Portfolio |-> p, MemberName |-> m,
                        SectorDisplayName |-> s, Broker |-> b]
    /\ filtered_df' = filtered(df, selection')
    /\ IF Empty(filtered_df')
       THEN /\ messages' = messages \cup
                    {<<"warning", "No data available for the selected filters.",
                       "">>}
            /\ pc' = "done"
       ELSE /\ pc' = "render"
            /\ UNCHANGED messages
    /\ UNCHANGED <<env, exception, mappings, lang, title, df, outputs>>

\* The else branch: total line, summary table, allocation series and detail
\* table, for a choice of the two group-by widgets.
Render ==
    /\ pc = "render"
    /\ LET investment == SumSkipNa(Column(filtered_df, "ValueAtCost"))
           current == SumSkipNa(Column(filtered_df, "ValueAtMarketPrice"))
           detail == DisplayFrame(filtered_df)
       IN  /\ total_investment' = Fin(investment)
           /\ total_current_value' = Fin(current)
           /\ total_hpr' = TotalHPR(investment, current)
           /\ \E summarize_by \in DOMAIN SummarizeByOptions :
                LET table == SummaryTable(filtered_df,
                                          SummarizeByOptions[summarize_by])
                    view == FormatSummary(table)
                IN  /\ group_by_column' = SummarizeByOptions[summarize_by]
                    /\ summary_table' = table
                    /\ summary_view' = view
                    /\ summary_styles' =
                            [app |-> highlight_hpr_app(Column(view, "HPR")),
                             canvas |-> highlight_hpr(Column(view, "HPR"))]
           /\ \E allocation_by \in DOMAIN SummarizeByOptions :
                allocation_data' =
                    AllocationData(filtered_df,
                                   SummarizeByOptions[allocation_by])
           /\ display_df' = detail
           /\ detail_styles' =
                    [app |-> highlight_hpr_app(Column(detail, "HPR")),
                     canvas |-> highlight_hpr(Column(detail, "HPR"))]
           /\ produced' = {"total", "summary_table", "chart", "detail_table"}
    /\ pc' = "done"
    /\ UNCHANGED <<env, exception, messages, mappings, lang, title, df,
                   selection, filtered_df>>

Next ==
    \/ LoadMappings
    \/ SelectLanguage
    \/ LoadPortfolio
    \/ Enrich
    \/ ApplyFilters
    \/ Render

Spec == Init /\ [][Next]_vars

\* ----------------------------------------------------------------- claims
\* The run has added the display and HPR columns to df.
Enriched == pc \in {"filter", "render"} \/ (pc = "done" /\ Len(df) > 0)

\* The run has applied the filters.
Filtered == pc = "render" \/ (pc = "done" /\ Len(df) > 0)

\* The run has rendered the four outputs.
Rendered == "summary_table" \in produced

Warned ==
    <<"warning", "No data available for the selected filters.", "">>
        \in messages
Informed == <<"info", "Please upload a portfolio CSV file.", "">> \in messages

\* The sum of the finite cells of a column over the rows idxs of a frame.
RECURSIVE SumOver(_, _, _)
SumOver(frame, name, idxs) ==
    IF idxs = {} THEN 0
    ELSE LET i == CHOOSE k \in idxs : TRUE
         IN  (IF frame[i][name].kind = "fin" THEN frame[i][name].v ELSE 0)
             + SumOver(frame, name, idxs \ {i})

\* C1: in the enriched table every row whose value-at-cost is 0 has HPR
\* exactly 0, whatever its value-at-market.
C1_ZeroCostRowHasZeroHPR ==
    Enriched =>
        \A i \in 1..Len(df) :
            df[i].ValueAtCost = Fin(0) => df[i].HPR = Fin(0)

\* C2: in the summary table every group whose summed value-at-cost is 0 has
\* group HPR exactly 0, whatever its summed value-at-market.
C2_ZeroInvestmentGroupHasZeroHPR ==
    Rendered =>
        \A i \in 1..Len(summary_table) :
            summary_table[i].Investment = Fin(0)
                => summary_table[i].HPR = Fin(0)

\* C3: the Investment column of the summary table sums to the total
\* investment of the filtered rows, for every grouping dimension.
C3_InvestmentConserved ==
    Rendered =>
        SumOver(summary_table, "Investment", 1..Len(summary_table))
            = total_investment.v

\* The style the claim C4 expects for a formatted percentage.
ExpectedStyle(text) ==
    IF LessThanZero(ParseFloat(RemovePercent(text))) THEN HighlightStyle
    ELSE ""

\* C4: in both variants highlight_hpr gives the highlight style to exactly
\* the rows of the summary table and of the detail table whose formatted
\* percentage parses to a number below zero.
C4_HighlightExactlyNegative ==
    Rendered =>
        \A variant \in {"app", "canvas"} :
            /\ Len(summary_styles[variant]) = Len(summary_view)
            /\ \A i \in 1..Len(summary_view) :
                summary_styles[variant][i] = ExpectedStyle(summary_view[i].HPR)
            /\ Len(detail_styles[variant]) = Len(display_df)
            /\ \A i \in 1..Len(display_df) :
                detail_styles[variant][i] = ExpectedStyle(display_df[i].HPR)

\* The table the run holds for the i-th mapping file.
LoadedTable(i) ==
    CASE i = 1 -> member_mapping
      [] i = 2 -> sector_mapping
      [] i = 3 -> stock_mapping
      [] OTHER -> titles_mapping

\* The codes and keys looked up in the mapping tables.
Codes ==
    {"M1", "M2", "M3", "INE001", "INE002", "Tech", "Bank", "Pharma",
     "Portfolio Summary", "HPR", "Investment", NaN}

\* C5: once the mapping files are loaded, a file that is absent or malformed
\* has given an empty table without an exception, and every lookup on that
\* table returns the code it was given.
C5_AbsentOrMalformedLoadsEmpty ==
    pc # "start" =>
        \A i \in 1..4 :
            files[MappingFiles[i]] \in {Absent, Malformed} =>
                /\ exception # "JSONDecodeError"
                /\ pc # "crashed"
                /\ LoadedTable(i) = EmptyDict
                /\ \A c \in Codes, l \in Langs :
                    GetOrCode(LoadedTable(i), c, l) = c

\* The mapping files have all been loaded.
MappingsLoaded == pc \notin {"start"} /\ exception # "JSONDecodeError"

\* Some entry of the sector table has the English name n.
HasSector(sectors, n) ==
    \E i \in 1..Len(sectors) :
        "en" \in DOMAIN sectors[i].value /\ sectors[i].value["en"] = n

\* The first entry of the sector table with the English name n.
FirstSector(sectors, n) ==
    sectors[CHOOSE i \in 1..Len(sectors) :
                /\ "en" \in DOMAIN sectors[i].value
                /\ sectors[i].value["en"] = n
                /\ \A k \in 1..(i - 1) :
                    ~("en" \in DOMAIN sectors[k].value
                      /\ sectors[k].value["en"] = n)].value

\* The table has no entry for the code, or the entry no value for the
\* language.
NoValue(table, c, l) ==
    ~HasKey(table, c) \/ l \notin DOMAIN DictGet(table, c, <<>>)

\* C6: a code without an entry, or whose entry has no value for the
\* language, is returned unchanged by get_member_name, get_stock_name,
\* get_text and get_sector_name, for every loaded table and language.
C6_LookupFallsBackToCode ==
    MappingsLoaded =>
        \A c \in Codes, l \in Langs :
            /\ NoValue(member_mapping, c, l)
                    => get_member_name(member_mapping, c, l) = c
            /\ NoValue(stock_mapping, c, l)
                    => get_stock_name(stock_mapping, c, l) = c
            /\ NoValue(titles_mapping, c, l)
                    => get_text(titles_mapping, c, l) = c
            /\ ~HasSector(sector_mapping, c)
                    => get_sector_name(sector_mapping, c, l) = Return(c)
            /\ (/\ HasSector(sector_mapping, c)
                /\ l \notin DOMAIN FirstSector(sector_mapping, c))
                    => get_sector_name(sector_mapping, c, l) = Return(c)

FilterDimensions == {"Portfolio", "MemberName", "SectorDisplayName", "Broker"}

\* The row has, in every dimension with a selection other than "All", a
\* value equal to the selected one; a missing field is no value.
MatchesSelection(r, sel) ==
    \A d \in FilterDimensions :
        sel[d] = "All" \/ (r[d] # NaN /\ r[d] = sel[d])

\* C7: the filtered table is the enriched table restricted to the rows that
\* match every selection other than "All", in their order and unchanged.
C7_FilterKeepsExactlyMatchingRows ==
    Filtered =>
        filtered_df = SelectSeq(df, LAMBDA r : MatchesSelection(r, selection))

\* C7's case: a selection that keeps some rows and removes others while
\* another dimension stays "All" and a row has a missing field.
C7_Witness ==
    /\ Filtered
    /\ selection.Broker # "All"
    /\ selection.Portfolio = "All"
    /\ Len(filtered_df) > 0
    /\ Len(filtered_df) < Len(df)
    /\ \E i \in 1..Len(df) : df[i].Broker = NaN

\* C8: the "no data for the selected filters" warning is reported exactly
\* when a non-empty table was loaded and the filters removed all its rows,
\* the request to upload exactly when the load found neither file; never
\* both, and with either of them no output is produced.
C8_EmptyResultAndMissingSource ==
    /\ Warned <=> (pc = "done" /\ Len(df) > 0 /\ Len(filtered_df) = 0)
    /\ (/\ pc \in {"enrich", "filter", "render", "done"}
        /\ ~uploaded_file.exists
        /\ ~default_file.exists) => Informed
    /\ Informed => ~uploaded_file.exists /\ ~default_file.exists
    /\ ~(Warned /\ Informed)
    /\ (Warned \/ Informed) =>
        /\ produced = {}
        /\ summary_table = <<>>
        /\ summary_view = <<>>
        /\ allocation_data = <<>>
        /\ display_df = <<>>

\* C8's case: a loaded table of two rows whose rows the filters all remove.
C8_Witness ==
    /\ pc = "done"
    /\ Warned
    /\ ~Informed
    /\ Len(df) = 2
    /\ selection.Broker \notin {"All", NaN}
    /\ selection.Portfolio # "All"
    /\ produced = {}

\* h is the quotient num / den * 100 rounded to 2 decimals: a number of
\* hundredths no further than half a hundredth from it.
IsRounded2(h, num, den) ==
    /\ h.kind \in {"fin", "negzero"}
    /\ 2 * Abs(h.v * den - num * 10000) <= Abs(den)

\* The rows of the filtered table in the group of key k.
GroupOf(k) ==
    {j \in 1..Len(filtered_df) : filtered_df[j][group_by_column] = k}

\* The group is the two rows {cost 1000, market 1200}, {cost 500, market 500}.
IsExampleGroup(idxs) ==
    \E a, b \in idxs :
        /\ idxs = {a, b}
        /\ a # b
        /\ filtered_df[a].ValueAtCost = Fin(1000)
        /\ filtered_df[a].ValueAtMarketPrice = Fin(1200)
        /\ filtered_df[b].ValueAtCost = Fin(500)
        /\ filtered_df[b].ValueAtMarketPrice = Fin(500)

\* The mean of the row HPRs of a group of rows with finite HPRs.
MeanRowHPR(idxs) == SumOver(filtered_df, "HPR", idxs) \div Cardinality(idxs)

\* C9: a group with non-zero summed investment has the HPR of its sums,
\* (current - investment) / investment * 100 rounded to 2 decimals; the
\* example group has investment 1500, current 1700 and HPR 13.33, not the
\* mean 10.00 of its rows' HPRs.
C9_GroupHPRFromSums ==
    Rendered =>
        \A i \in 1..Len(summary_table) :
            LET row == summary_table[i]
                idxs == GroupOf(row.Key)
                inv == SumOver(filtered_df, "ValueAtCost", idxs)
                cur == SumOver(filtered_df, "ValueAtMarketPrice", idxs)
            IN  /\ row.Investment = Fin(inv)
                /\ row.Current_Value = Fin(cur)
                /\ inv # 0 => IsRounded2(row.HPR, cur - inv, inv)
                /\ IsExampleGroup(idxs) =>
                    /\ row.Investment = Fin(1500)
                    /\ row.Current_Value = Fin(1700)
                    /\ row.HPR = Fin(1333)
                    /\ MeanRowHPR(idxs) = 1000

\* C9's case: the example group, summarized.
C9_Witness ==
    /\ Rendered
    /\ \E i \in 1..Len(summary_table) :
        /\ IsExampleGroup(GroupOf(summary_table[i].Key))
        /\ summary_table[i].HPR = Fin(1333)

\* C10: the totals are the sums of the two value columns over the filtered
\* rows, missing cells left out, and the total HPR is 0 when the total
\* investment is 0 and else the rounded percentage of the totals.
C10_TotalSummary ==
    Rendered =>
        LET all == 1..Len(filtered_df)
            inv == SumOver(filtered_df, "ValueAtCost", all)
            cur == SumOver(filtered_df, "ValueAtMarketPrice", all)
        IN  /\ total_investment = Fin(inv)
            /\ total_current_value = Fin(cur)
            /\ inv = 0 => total_hpr = Fin(0)
            /\ inv # 0 => IsRounded2(total_hpr, cur - inv, inv)

\* C10's case: the single filtered row {cost 0, market 500}, with another
\* row of the table filtered out.
C10_Witness ==
    /\ Rendered
    /\ Len(filtered_df) = 1
    /\ Len(df) = 2
    /\ filtered_df[1].ValueAtCost = Fin(0)
    /\ filtered_df[1].ValueAtMarketPrice = Fin(500)
    /\ total_investment = Fin(0)
    /\ total_current_value = Fin(500)
    /\ total_hpr = Fin(0)

\* C11: filtering is idempotent: the filter step applied with the same
\* selection to the filtered table gives the filtered table again.
C11_FilterIdempotent ==
    Filtered => filtered(filtered_df, selection) = filtered_df

\* C11's case: a selection on two dimensions that removed a row and kept
\* one.
C11_Witness ==
    /\ Filtered
    /\ selection.MemberName \notin {"All", NaN}
    /\ selection.Portfolio \notin {"All", NaN}
    /\ Len(filtered_df) > 0
    /\ Len(filtered_df) < Len(df)

\* C12: get_sector_name returns normally on every sector table: the value
\* for the language of the first entry whose English name is n, n when that
\* entry has no value for the language, and n when no entry has that
\* English name.
C12_SectorLookupByValue ==
    MappingsLoaded =>
        \A n \in Codes, l \in Langs :
            LET result == get_sector_name(sector_mapping, n, l)
            IN  /\ ~result.raised
                /\ result.value =
                    IF HasSector(sector_mapping, n)
                    THEN EntryGet(FirstSector(sector_mapping, n), l, n)
                    ELSE n

\* The selection chooses a value in the dimension d and "All" in the other
\* three.
SingleChoice(sel, d) ==
    /\ sel[d] # "All"
    /\ \A e \in FilterDimensions \ {d} : sel[e] = "All"

\* C13: a single option of one selectbox, the others left at "All", never
\* filters a loaded table down to nothing.
C13_EveryOptionKeepsARow ==
    \A d \in FilterDimensions :
        (Filtered /\ SingleChoice(selection, d)) =>
            /\ Len(filtered_df) > 0
            /\ ~Warned

=============================================================================
